---- MODULE Spec2Model ----
(***************************************************************************)
(* A model of unicode_decoder.py: the escape decoder                       *)
(* (decode_unicode_escapes) and the file pipeline (is_text_file,           *)
(* process_file, main).                                                    *)
(*                                                                         *)
(* Text is a sequence of code points.  While it is being decoded every     *)
(* character carries its history: src is the pass that produced it (0 for  *)
(* a character of the input), at is its index in the input (0 for a        *)
(* produced character) and from is the span the pass replaced by it.  The  *)
(* string the program holds is Chars(decoded).                             *)
(***************************************************************************)
EXTENDS Integers, Sequences, FiniteSets, TLC

VARIABLES
  text, decoded, dpc,            \* decode_unicode_escapes: argument, local, position
  py314,                         \* the interpreter's pathlib counts a lone dot as a suffix
  fs,                            \* the working directory: file name -> bytes
  pc, run,                       \* main: position; first or later run over the directory
  files_to_process, idx,         \* main: the selected files, the number completed
  processed_count, skipped_count, error_count,
  call,                          \* the locals of the last process_file call
  written, names_first           \* names process_file has written; names after the first run

dvars == <<text, decoded, dpc>>
pvars == <<py314, fs, pc, run, files_to_process, idx, processed_count, skipped_count,
           error_count, call, written, names_first>>
vars == <<dvars, pvars>>

-----------------------------------------------------------------------------
(* Bounds *)

\* the number of fragments an input text of the decoder is built from
MaxTokens == 3

\* the number of files in the working directory
MaxFiles == 2

-----------------------------------------------------------------------------
(* Characters *)

Backslash == 92
LetterU == 117
LetterX == 120
Slash == 47

\* the class widened to every letter, [0-9a-zA-Z]
IsAlnum(c) == c \in (48..57) \cup (97..122) \cup (65..90)

\* the character class [0-9a-fA-F]
IsHex(c) == c \in (48..57) \cup (97..102) \cup (65..70)

\* int(d, 16) of one digit
HexVal(c) ==
  IF c \in 48..57 THEN c - 48
  ELSE IF c \in 97..102 THEN c - 87
  ELSE c - 55

Chars(s) == [i \in 1..Len(s) |-> s[i].c]

Tag(t) == [i \in 1..Len(t) |-> [c |-> t[i], src |-> 0, at |-> i, from |-> <<>>]]

Made(pass, code, span) == [c |-> code, src |-> pass, at |-> 0, from |-> span]

\* needle in haystack, for a needle of two characters
Contains(s, a, b) == \E i \in 1..(Len(s) - 1) : s[i].c = a /\ s[i + 1].c = b

-----------------------------------------------------------------------------
(* Pass 1: \uXXXX *)

\* r'\\u([0-9a-fA-F]{4})' matches at i
PatternU(s, i) ==
  /\ i + 5 <= Len(s)
  /\ s[i].c = Backslash
  /\ s[i + 1].c = LetterU
  /\ \A j \in 2..5 : IsHex(s[i + j].c)

\* replace_unicode: chr(int(group(1), 16)), or group(0) when that raises
replace_unicode(s, i) ==
  IF \A j \in 2..5 : IsHex(s[i + j].c)
  THEN << Made(1, 4096 * HexVal(s[i + 2].c) + 256 * HexVal(s[i + 3].c)
                  + 16 * HexVal(s[i + 4].c) + HexVal(s[i + 5].c),
              SubSeq(s, i, i + 5)) >>
  ELSE SubSeq(s, i, i + 5)

\* re.sub: one scan from the left, the replacements are not scanned again
RECURSIVE sub_unicode(_, _)
sub_unicode(s, i) ==
  IF i > Len(s) THEN <<>>
  ELSE IF PatternU(s, i) THEN replace_unicode(s, i) \o sub_unicode(s, i + 6)
  ELSE <<s[i]>> \o sub_unicode(s, i + 1)

pass1(t, d) == IF Contains(t, Backslash, LetterU) THEN sub_unicode(d, 1) ELSE d

-----------------------------------------------------------------------------
(* Pass 2: \xXX *)

PatternX(s, i) ==
  /\ i + 3 <= Len(s)
  /\ s[i].c = Backslash
  /\ s[i + 1].c = LetterX
  /\ \A j \in 2..3 : IsHex(s[i + j].c)

replace_hex(s, i) ==
  IF \A j \in 2..3 : IsHex(s[i + j].c)
  THEN << Made(2, 16 * HexVal(s[i + 2].c) + HexVal(s[i + 3].c),
              SubSeq(s, i, i + 3)) >>
  ELSE SubSeq(s, i, i + 3)

RECURSIVE sub_hex(_, _)
sub_hex(s, i) ==
  IF i > Len(s) THEN <<>>
  ELSE IF PatternX(s, i) THEN replace_hex(s, i) \o sub_hex(s, i + 4)
  ELSE <<s[i]>> \o sub_hex(s, i + 1)

\* pass 2 run again on its own result
pass2_again(d) == IF Contains(d, Backslash, LetterX) THEN sub_hex(sub_hex(d, 1), 1) ELSE d

pass2(d) == IF Contains(d, Backslash, LetterX) THEN sub_hex(d, 1) ELSE d

-----------------------------------------------------------------------------
(* Pass 3: backslash + slash *)

PatternSlash(s, i) ==
  /\ i + 1 <= Len(s)
  /\ s[i].c = Backslash
  /\ s[i + 1].c = Slash

\* str.replace: one scan from the left
RECURSIVE replace_slash(_, _)
replace_slash(s, i) ==
  IF i > Len(s) THEN <<>>
  ELSE IF PatternSlash(s, i)
       THEN << Made(3, Slash, SubSeq(s, i, i + 1)) >> \o replace_slash(s, i + 2)
  ELSE <<s[i]>> \o replace_slash(s, i + 1)

\* a fourth pass that turns backslash + n, r, t into the control character
RECURSIVE replace_controls(_, _)
replace_controls(s, i) ==
  IF i > Len(s) THEN <<>>
  ELSE IF i + 1 <= Len(s) /\ s[i].c = Backslash /\ s[i + 1].c \in {110, 114, 116}
       THEN << Made(3, IF s[i + 1].c = 110 THEN 10 ELSE IF s[i + 1].c = 114 THEN 13 ELSE 9,
                   SubSeq(s, i, i + 1)) >> \o replace_controls(s, i + 2)
  ELSE <<s[i]>> \o replace_controls(s, i + 1)

pass3_and_controls(d) ==
  replace_controls(IF Contains(d, Backslash, Slash) THEN replace_slash(d, 1) ELSE d, 1)

pass3(d) == IF Contains(d, Backslash, Slash) THEN replace_slash(d, 1) ELSE d

\* the whole function, as process_file calls it: the passes one after another,
\* each on the value the one before left in decoded
decode_unicode_escapes(t) ==
  LET after1 == { pass1(original_text, original_text) : original_text \in {Tag(t)} }
      after2 == { pass2(d) : d \in after1 }
      after3 == { pass3(d) : d \in after2 }
  IN CHOOSE out \in { Chars(d) : d \in after3 } : TRUE


-----------------------------------------------------------------------------
(* File names: sequences of one-character strings *)

TEXT_EXTENSIONS ==
  { <<".", "t", "x", "t">>,
    <<".", "j", "s", "o", "n">>,
    <<".", "l", "o", "g">>,
    <<".", "x", "m", "l">>,
    <<".", "c", "s", "v">>,
    <<".", "h", "t", "m", "l">>,
    <<".", "h", "t", "m">>,
    <<".", "j", "s">>,
    <<".", "j", "s", "x">>,
    <<".", "t", "s">>,
    <<".", "t", "s", "x">>,
    <<".", "p", "y">>,
    <<".", "j", "a", "v", "a">>,
    <<".", "c">>,
    <<".", "c", "p", "p">>,
    <<".", "h">>,
    <<".", "c", "s">>,
    <<".", "p", "h", "p">>,
    <<".", "r", "b">>,
    <<".", "g", "o">>,
    <<".", "r", "s">>,
    <<".", "s", "w", "i", "f", "t">>,
    <<".", "k", "t">>,
    <<".", "m", "d">>,
    <<".", "m", "a", "r", "k", "d", "o", "w", "n">>,
    <<".", "y", "a", "m", "l">>,
    <<".", "y", "m", "l">>,
    <<".", "i", "n", "i">>,
    <<".", "c", "f", "g">>,
    <<".", "c", "o", "n", "f">>,
    <<".", "s", "q", "l">>,
    <<".", "s", "h">>,
    <<".", "b", "a", "t">>,
    <<".", "p", "s", "1">>,
    <<".", "c", "s", "s">>,
    <<".", "s", "c", "s", "s">>,
    <<".", "s", "a", "s", "s">>,
    <<".", "l", "e", "s", "s">> }

\* str.lower() of one character
Lower(ch) ==
  CASE ch = "A" -> "a" []
       ch = "B" -> "b" []
       ch = "C" -> "c" []
       ch = "D" -> "d" []
       ch = "E" -> "e" []
       ch = "F" -> "f" []
       ch = "G" -> "g" []
       ch = "H" -> "h" []
       ch = "I" -> "i" []
       ch = "J" -> "j" []
       ch = "K" -> "k" []
       ch = "L" -> "l" []
       ch = "M" -> "m" []
       ch = "N" -> "n" []
       ch = "O" -> "o" []
       ch = "P" -> "p" []
       ch = "Q" -> "q" []
       ch = "R" -> "r" []
       ch = "S" -> "s" []
       ch = "T" -> "t" []
       ch = "U" -> "u" []
       ch = "V" -> "v" []
       ch = "W" -> "w" []
       ch = "X" -> "x" []
       ch = "Y" -> "y" []
       ch = "Z" -> "z" []
       OTHER -> ch

\* str.lower()
RECURSIVE lower(_)
lower(name) == IF name = <<>> THEN <<>> ELSE <<Lower(Head(name))>> \o lower(Tail(name))

\* os.path.basename(__file__)
ScriptName == <<"u", "n", "i", "c", "o", "d", "e", "_", "d", "e", "c", "o", "d", "e", "r", ".", "p", "y">>

\* the marker of an output file
DecodedMarker == <<"_", "d", "e", "c", "o", "d", "e", "d">>

\* needle in haystack
IsIn(needle, hay) ==
  \E i \in 1..(Len(hay) - Len(needle) + 1) : SubSeq(hay, i, i + Len(needle) - 1) = needle

\* name.rfind('.'), 1-based, 0 when there is no dot
RFindDot(name) ==
  IF \E i \in 1..Len(name) : name[i] = "."
  THEN CHOOSE i \in 1..Len(name) : name[i] = "." /\ \A j \in (i + 1)..Len(name) : name[j] # "."
  ELSE 0

\* the number of leading dots
RECURSIVE LeadingDots(_)
LeadingDots(name) ==
  IF name # <<>> /\ Head(name) = "." THEN 1 + LeadingDots(Tail(name)) ELSE 0

\* PurePath.suffix: up to Python 3.13 the last dot starts a suffix unless it is
\* the first or the last character; from 3.14 on leading dots are skipped and
\* a last dot that ends the name is a suffix too
suffix(name) ==
  LET i == RFindDot(name)
  IN IF py314
     THEN IF i > LeadingDots(name) THEN SubSeq(name, i, Len(name)) ELSE <<>>
     ELSE IF 1 < i /\ i < Len(name) THEN SubSeq(name, i, Len(name)) ELSE <<>>

\* PurePath.stem
stem(name) ==
  LET i == RFindDot(name)
  IN IF py314
     THEN IF i > LeadingDots(name) THEN SubSeq(name, 1, i - 1) ELSE name
     ELSE IF 1 < i /\ i < Len(name) THEN SubSeq(name, 1, i - 1) ELSE name

-----------------------------------------------------------------------------
(* File contents: sequences of bytes.  Every file of the model holds ASCII    *)
(* bytes other than carriage return, so detect_encoding returns its first     *)
(* candidate, utf-8, and reading gives one character per byte, with the       *)
(* byte's value.                                                              *)

ChunkSize == 512

Min(a, b) == IF a <= b THEN a ELSE b

\* chunk.decode('utf-8') succeeds, for the chunks of the model: ASCII bytes decode, and
\* a byte above 127 among ASCII bytes is not well-formed UTF-8
ValidUtf8(bytes) == \A i \in 1..Len(bytes) : bytes[i] < 128

\* f.read() with encoding utf-8 on ASCII bytes: the character of each byte
read_text(bytes) == bytes

\* one character written with encoding='utf-8', errors='replace'
EncodeChar(c) ==
  IF c < 128 THEN <<c>>
  ELSE IF c < 2048 THEN <<192 + (c \div 64), 128 + (c % 64)>>
  ELSE IF c \in 55296..57343 THEN <<63>>
  ELSE <<224 + (c \div 4096), 128 + ((c \div 64) % 64), 128 + (c % 64)>>

RECURSIVE write_text(_)
write_text(t) == IF t = <<>> THEN <<>> ELSE EncodeChar(Head(t)) \o write_text(Tail(t))

is_text_file(name, bytes) ==
  IF lower(suffix(name)) \in TEXT_EXTENSIONS THEN TRUE
  ELSE LET chunk == SubSeq(bytes, 1, Min(ChunkSize, Len(bytes)))
       IN IF \E i \in 1..Len(chunk) : chunk[i] = 0 THEN FALSE
          ELSE ValidUtf8(chunk)

\* the selection filter of main that ignores the marker
ExcludedScriptOnly(name) == name = ScriptName

\* the two exclusions of main's selection loop
Excluded(name) == name = ScriptName \/ IsIn(DecodedMarker, stem(name))

Selected(name) == ~Excluded(name) /\ is_text_file(name, fs[name])

\* the input file's own path as the path to write
in_place(name) == name

\* parent / f"{stem}_decoded{suffix}"
new_file_path(name) == stem(name) \o DecodedMarker \o suffix(name)

-----------------------------------------------------------------------------
(* The directories a run starts from *)

Names ==
  { <<"a", ".", "J", "S", "O", "N">>,
    <<"b", ".", "b", "i", "n">>,
    <<"a", "-", "d", "e", "c", "o", "d", "e", "d", ".", "t", "x", "t">>,
    <<"u", "n", "i", "c", "o", "d", "e", "_", "d", "e", "c", "o", "d", "e", "r", ".", "p", "y">>,
    <<"a", ".">> }

\* ab; \u005cu0041, which decodes to \u0041; a null byte
Contents ==
  { <<97, 98>>,
    <<92, 117, 48, 48, 53, 99, 117, 48, 48, 52, 49>>,
    <<0>> }

NoCall ==
  [file |-> <<>>, fault |-> "none", content |-> <<>>, opened |-> <<>>,
   status |-> "", result |-> FALSE]

Idle ==
  /\ text = <<>>
  /\ decoded = <<>>
  /\ dpc = "idle"

Init ==
  /\ Idle
  /\ py314 \in BOOLEAN
  /\ \E S \in SUBSET Names : Cardinality(S) <= MaxFiles /\ fs \in [S -> Contents]
  /\ pc = "start"
  /\ run = "first"
  /\ files_to_process = <<>>
  /\ idx = 0
  /\ processed_count = 0
  /\ skipped_count = 0
  /\ error_count = 0
  /\ call = NoCall
  /\ written = {}
  /\ names_first = {}

\* the orders iterdir may list the set S in
RECURSIVE Orders(_)
Orders(S) ==
  IF S = {} THEN { <<>> }
  ELSE UNION { { <<n>> \o o : o \in Orders(S \ {n}) } : n \in S }

\* main up to the loop: enumerate, filter, set the counters
Select ==
  /\ pc = "start"
  /\ \E selected \in { { file_path \in DOMAIN fs : Selected(file_path) } } :
       files_to_process' \in Orders(selected)
  /\ pc' = IF files_to_process' = <<>> THEN "done" ELSE "loop"
  /\ idx' = 0
  /\ processed_count' = 0
  /\ skipped_count' = 0
  /\ error_count' = 0
  /\ UNCHANGED <<dvars, py314, fs, run, call, written, names_first>>

\* what process_file does to the directory and returns once it has read
\* content and decoded it, under the fault the environment raises: none, an
\* error in reading the file, or an error in opening the output
process_file(name, fault, content, decoded_content) ==
  IF fault = "read"
  THEN [fs |-> fs, status |-> "ERROR", result |-> FALSE, content |-> <<>>, opened |-> <<>>]
  ELSE IF decoded_content = content
  THEN [fs |-> fs, status |-> "SKIP", result |-> FALSE,
        content |-> <<content>>, opened |-> <<>>]
  ELSE IF fault = "open"
  THEN [fs |-> fs, status |-> "ERROR", result |-> FALSE,
        content |-> <<content>>, opened |-> <<new_file_path(name)>>]
  ELSE [fs |-> [n \in DOMAIN fs \cup {new_file_path(name)} |->
                  IF n = new_file_path(name) THEN write_text(decoded_content) ELSE fs[n]],
        status |-> "OK", result |-> TRUE,
        content |-> <<content>>, opened |-> <<new_file_path(name)>>]

\* a tally that counts only a file that was written
tally_written_only(result) ==
  IF result = TRUE THEN [processed |-> 1, skipped |-> 0, errors |-> 0]
  ELSE [processed |-> 0, skipped |-> 0, errors |-> 0]

\* the if / elif / else on process_file's result: what each counter grows by
tally(result) ==
  IF result = TRUE THEN [processed |-> 1, skipped |-> 0, errors |-> 0]
  ELSE IF result = FALSE THEN [processed |-> 0, skipped |-> 1, errors |-> 0]
  ELSE [processed |-> 0, skipped |-> 0, errors |-> 1]

\* the faults that can strike a call: the output is opened only for a change
Faults(content, decoded_content) ==
  IF decoded_content = content THEN {"none", "read"} ELSE {"none", "read", "open"}

\* one iteration of main's loop
ProcessNext ==
  /\ pc = "loop"
  /\ idx < Len(files_to_process)
  /\ \E file_path \in {files_to_process[idx + 1]} :
       \E content \in {read_text(fs[file_path])} :
       \E decoded_content \in {decode_unicode_escapes(content)} :
       \E fault \in Faults(content, decoded_content) :
          \E r \in {process_file(file_path, fault, content, decoded_content)} :
             /\ fs' = r.fs
             /\ call' = [file |-> file_path, fault |-> fault, content |-> r.content,
                         opened |-> r.opened, status |-> r.status, result |-> r.result]
             /\ written' = IF r.status = "OK"
                           THEN written \cup {new_file_path(file_path)}
                           ELSE written
             /\ processed_count' = processed_count + tally(r.result).processed
             /\ skipped_count' = skipped_count + tally(r.result).skipped
             /\ error_count' = error_count + tally(r.result).errors
  /\ idx' = idx + 1
  /\ UNCHANGED <<dvars, py314, pc, run, files_to_process, names_first>>

\* the summary after the loop
Finish ==
  /\ pc = "loop"
  /\ idx = Len(files_to_process)
  /\ pc' = "done"
  /\ UNCHANGED <<dvars, py314, fs, run, files_to_process, idx, processed_count,
                 skipped_count, error_count, call, written, names_first>>

\* the program is started once more in the same directory
RunAgain ==
  /\ pc = "done"
  /\ run = "first"
  /\ run' = "later"
  /\ pc' = "start"
  /\ names_first' = DOMAIN fs
  /\ files_to_process' = <<>>
  /\ idx' = 0
  /\ processed_count' = 0
  /\ skipped_count' = 0
  /\ error_count' = 0
  /\ call' = NoCall
  /\ UNCHANGED <<dvars, py314, fs, written>>

\* a step of main
Main == Select \/ ProcessNext \/ Finish

Next == Main \/ RunAgain

Spec == Init /\ [][Next]_vars

\* main, once started, keeps taking its steps: the program is sequential and
\* nothing in it waits; whether it is started a second time is the user's choice
FairSpec == Spec /\ WF_vars(Main)

-----------------------------------------------------------------------------
(* The decoder, one pass at a time *)

\* the fragments the input texts are built from
Tokens ==
  { <<92>>,                          \* backslash
    <<117, 48, 48, 52, 49>>,         \* u0041
    <<120, 52, 49>>,                 \* x41
    <<47>>,                          \* /
    <<110>>, <<114>>, <<116>>,       \* n  r  t
    <<92, 117, 48, 48, 53, 99>>,     \* \u005c
    <<92, 120, 53, 99>>,             \* \x5c
    <<92, 120, 52>>,                 \* \x4
    <<92, 117, 48, 48>> }            \* \u00

RECURSIVE Flatten(_)
Flatten(ts) == IF ts = <<>> THEN <<>> ELSE Head(ts) \o Flatten(Tail(ts))

Texts == UNION { { Flatten(ts) : ts \in [1..n -> Tokens] } : n \in 0..MaxTokens }

\* no run of main
NoPipeline ==
  /\ py314 = FALSE
  /\ fs = <<>>
  /\ pc = "none"
  /\ run = "first"
  /\ files_to_process = <<>>
  /\ idx = 0
  /\ processed_count = 0
  /\ skipped_count = 0
  /\ error_count = 0
  /\ call = NoCall
  /\ written = {}
  /\ names_first = {}

InitDecode ==
  /\ text \in Texts
  /\ decoded = Tag(text)
  /\ dpc = "pass1"
  /\ NoPipeline

Pass1 ==
  /\ dpc = "pass1"
  /\ decoded' = pass1(Tag(text), decoded)
  /\ dpc' = "pass2"
  /\ UNCHANGED <<text, pvars>>

Pass2 ==
  /\ dpc = "pass2"
  /\ decoded' = pass2(decoded)
  /\ dpc' = "pass3"
  /\ UNCHANGED <<text, pvars>>

Pass3 ==
  /\ dpc = "pass3"
  /\ decoded' = pass3(decoded)
  /\ dpc' = "return"
  /\ UNCHANGED <<text, pvars>>

NextDecode == Pass1 \/ Pass2 \/ Pass3

SpecDecode == InitDecode /\ [][NextDecode]_vars

-----------------------------------------------------------------------------
(* The three substitutions as the specification states them, on plain text *)

HexDigits == <<48, 49, 50, 51, 52, 53, 54, 55, 56, 57, 97, 98, 99, 100, 101, 102>>
HexDigitsUpper == <<48, 49, 50, 51, 52, 53, 54, 55, 56, 57, 65, 66, 67, 68, 69, 70>>

IsHexDigit(c) == \E v \in 1..16 : HexDigits[v] = c \/ HexDigitsUpper[v] = c
DigitValue(c) == (CHOOSE v \in 1..16 : HexDigits[v] = c \/ HexDigitsUpper[v] = c) - 1

\* the positions where backslash, marker and n hex digits stand
Occurrences(t, marker, n) ==
  { i \in 1..Len(t) :
      /\ i + 1 + n <= Len(t)
      /\ t[i] = 92
      /\ t[i + 1] = marker
      /\ \A j \in 1..n : IsHexDigit(t[i + 1 + j]) }

\* the leftmost non-overlapping ones: an occurrence that no chosen earlier one covers
RECURSIVE Leftmost(_, _)
Leftmost(occ, w) ==
  IF occ = {} THEN {}
  ELSE LET m == CHOOSE i \in occ : \A j \in occ : i <= j
       IN {m} \cup Leftmost({ j \in occ : j >= m + w }, w)

RECURSIVE NumberAt(_, _, _)
NumberAt(t, i, n) == IF n = 0 THEN 0 ELSE 16 * NumberAt(t, i, n - 1) + DigitValue(t[i + n - 1])

RECURSIVE Concat(_, _)
Concat(f, n) == IF n = 0 THEN <<>> ELSE Concat(f, n - 1) \o f[n]

\* every chosen occurrence of width 2 + n replaced by one character
Substituted(t, marker, n) ==
  LET chosen == Leftmost(Occurrences(t, marker, n), 2 + n)
      piece == [i \in 1..Len(t) |->
                 IF i \in chosen
                 THEN << IF n = 0 THEN 47 ELSE NumberAt(t, i + 2, n) >>
                 ELSE IF \E j \in chosen : j < i /\ i < j + 2 + n THEN <<>>
                 ELSE << t[i] >>]
  IN Concat(piece, Len(t))

P1(t) == Substituted(t, 117, 4)
P2(t) == Substituted(t, 120, 2)
P3(t) == Substituted(t, 47, 0)

HasPattern(t) ==
  \/ Occurrences(t, 117, 4) # {}
  \/ Occurrences(t, 120, 2) # {}
  \/ Occurrences(t, 47, 0) # {}

Returned == dpc = "return"

\* the characters of the input that are still in the text, by index
Kept(d) == { d[k].at : k \in { k \in 1..Len(d) : d[k].src = 0 } }

\* the two input characters at i and i + 1 stand side by side in d
KeptPair(d, i) ==
  \E k \in 1..(Len(d) - 1) :
    /\ d[k].src = 0 /\ d[k].at = i /\ d[k].c = text[i]
    /\ d[k + 1].src = 0 /\ d[k + 1].at = i + 1 /\ d[k + 1].c = text[i + 1]

-----------------------------------------------------------------------------
(* C7 *)

\* C7: the text decode_unicode_escapes returns is P3(P2(P1(text))): the three
\* substitutions, each applied once to the whole text, in that order.
C7_SequentialPasses == Returned => Chars(decoded) = P3(P2(P1(text)))

\* an input on which each of the three passes replaces something
C7_Witness ==
  /\ Returned
  /\ P1(text) # text
  /\ P2(P1(text)) # P1(text)
  /\ P3(P2(P1(text))) # P2(P1(text))
  /\ Chars(decoded) = P3(P2(P1(text)))

-----------------------------------------------------------------------------
(* C2 *)

\* C2: no span a pass replaces holds a character that an earlier pass
\* produced.
C2_NeverReinterpreted ==
  \A k \in 1..Len(decoded) :
    \A j \in 1..Len(decoded[k].from) : decoded[k].from[j].src = 0

\* what the passes do keep to: a span replaced by pass p holds only characters
\* of the input and characters produced by passes before p, never one that p
\* itself or a later pass produced; no pass scans its own output or runs twice
C2_OnlyEarlierOutput ==
  \A k \in 1..Len(decoded) :
    \A j \in 1..Len(decoded[k].from) : decoded[k].from[j].src < decoded[k].src

\* a later pass has replaced a span that holds an earlier pass's output: the
\* state in which C2 fails
C2_Witness ==
  /\ Returned
  /\ \E k \in 1..Len(decoded) :
       \E j \in 1..Len(decoded[k].from) :
         /\ decoded[k].from[j].src >= 1
         /\ decoded[k].from[j].src < decoded[k].src

-----------------------------------------------------------------------------
(* C4 *)

\* backslash + n, r or t in the input
ControlEscapes(t) ==
  { i \in 1..(Len(t) - 1) : t[i] = 92 /\ t[i + 1] \in {110, 114, 116} }

\* C4: every backslash+n, backslash+r, backslash+t of the input stands
\* unchanged in the text after every pass, so it is in no replaced span; and a
\* text whose backslashes all start such a pair is returned as it was.
C4_ControlEscapesKept ==
  /\ \A i \in ControlEscapes(text) : KeptPair(decoded, i)
  /\ (Returned /\ \A i \in 1..Len(text) : text[i] = 92 => i \in ControlEscapes(text))
       => Chars(decoded) = text

\* a control escape kept in a text in which something else was replaced
C4_Witness ==
  /\ Returned
  /\ ControlEscapes(text) # {}
  /\ Chars(decoded) # text
  /\ \A i \in ControlEscapes(text) : KeptPair(decoded, i)

-----------------------------------------------------------------------------
(* C6 *)

\* C6: a text holding none of the three patterns is returned as it was, and
\* when the returned text holds none of them, decoding it again returns it.
C6_NoPatternNoChange ==
  Returned =>
    /\ ~HasPattern(text) => Chars(decoded) = text
    /\ ~HasPattern(Chars(decoded)) =>
         decode_unicode_escapes(Chars(decoded)) = Chars(decoded)

\* a changed result that still holds a backslash but no pattern
C6_Witness ==
  /\ Returned
  /\ Chars(decoded) # text
  /\ ~HasPattern(Chars(decoded))
  /\ \E k \in 1..Len(decoded) : decoded[k].c = 92
  /\ decode_unicode_escapes(Chars(decoded)) = Chars(decoded)

-----------------------------------------------------------------------------
(* C8 *)

\* \u or \x in t at i that its pattern does not match
Malformed(t, i, marker, n) ==
  /\ i + 1 <= Len(t)
  /\ t[i] = 92
  /\ t[i + 1] = marker
  /\ i \notin Occurrences(t, marker, n)

\* every character chr() is asked for exists
NeverFails ==
  \A k \in 1..Len(decoded) : decoded[k].src = 0 \/ decoded[k].c \in 0..1114111

\* every well-formed escape of the input is replaced
WellFormedReplaced ==
  Returned =>
    /\ \A i \in Occurrences(text, 117, 4) : \A j \in 0..5 : (i + j) \notin Kept(decoded)
    /\ \A i \in Occurrences(text, 120, 2) : \A j \in 0..3 : (i + j) \notin Kept(decoded)
    /\ \A i \in Occurrences(text, 47, 0) : \A j \in 0..1 : (i + j) \notin Kept(decoded)

\* C8: decoding never fails; a \u of the input not followed by 4 hex digits
\* and a \x of the input not followed by 2 hex digits are in the returned text
\* as written; and every well-formed escape of the input is replaced.
C8_MalformedOfInputKept ==
  /\ NeverFails
  /\ WellFormedReplaced
  /\ Returned =>
       \A i \in 1..Len(text) :
         (Malformed(text, i, 117, 4) \/ Malformed(text, i, 120, 2))
           => KeptPair(decoded, i)

\* the characters d[k], d[k + 1] stand side by side in e
StillThere(d, k, e) == \E m \in 1..(Len(e) - 1) : e[m] = d[k] /\ e[m + 1] = d[k + 1]

\* what decoding does keep to: it never fails; a \u not followed by 4 hex
\* digits in the input is in the returned text as written; a \x that is not
\* followed by 2 hex digits in the text pass 2 scans (the text after pass 1)
\* is left as written by every pass; every well-formed escape of the input is
\* replaced
C8_MalformedWhenScannedKept ==
  /\ [](NeverFails /\ WellFormedReplaced)
  /\ [](Returned => \A i \in 1..Len(text) : Malformed(text, i, 117, 4) => KeptPair(decoded, i))
  /\ [][ \A k \in 1..(Len(decoded) - 1) :
           ( \/ Malformed(Chars(decoded), k, 117, 4)
             \/ (dpc # "pass1" /\ Malformed(Chars(decoded), k, 120, 2)) )
           => StillThere(decoded, k, decoded') ]_vars

\* the state in which C8 fails: a \x of the input not followed by 2 hex
\* digits has been replaced, with a character pass 1 produced as its digit
C8_Witness ==
  /\ Returned
  /\ \E i \in 1..Len(text) :
       /\ Malformed(text, i, 120, 2)
       /\ ~KeptPair(decoded, i)
       /\ \E k \in 1..Len(decoded) :
            /\ decoded[k].src = 2
            /\ decoded[k].from[1].at = i
            /\ \E j \in 1..Len(decoded[k].from) : decoded[k].from[j].src = 1

-----------------------------------------------------------------------------
(* The pipeline's claims *)

\* a step of main's loop: one file completes
FileCompletes == idx' = idx + 1

\* the names whose presence or bytes a step changes
Touched == { n \in DOMAIN fs \cup DOMAIN fs' :
               n \notin DOMAIN fs \/ n \notin DOMAIN fs' \/ fs'[n] # fs[n] }

-----------------------------------------------------------------------------
(* C1 *)

\* C1: when reading, decoding or writing fails inside process_file, the
\* failure is counted in error_count and in no other counter, and main goes on
\* with the next file.
C1_FailureCountedAsError ==
  [][ (FileCompletes /\ call'.fault # "none") =>
        /\ call'.status = "ERROR"
        /\ error_count' = error_count + 1
        /\ processed_count' = processed_count
        /\ skipped_count' = skipped_count
        /\ pc' = "loop" ]_vars

\* the state in which C1 fails: the only call so far has failed and printed
\* [ERROR], and it is skipped_count that has grown
C1_Witness ==
  /\ pc = "loop"
  /\ idx = 1
  /\ call.fault # "none"
  /\ call.status = "ERROR"
  /\ skipped_count = 1
  /\ error_count = 0

-----------------------------------------------------------------------------
(* C3 *)

\* C3: process_file opens a file for writing exactly when it has read the
\* input and the decoded content differs from the content read; the file it
\* writes is stem + "_decoded" + suffix, which is not the input's path; the
\* bytes it leaves there on success are the decoded content; no other file of
\* the directory changes, and the input stays, with its bytes, on every path.
C3_WritesSiblingOnlyWhenChanged ==
  [][ FileCompletes =>
        LET file_path == files_to_process[idx + 1]
            c == call'
        IN /\ c.file = file_path
           /\ (c.content = <<>>) <=> (c.fault = "read")
           /\ c.content = <<>> => c.opened = <<>>
           /\ c.content # <<>> =>
                /\ c.content[1] = fs[file_path]
                /\ (c.opened # <<>>) <=> (decode_unicode_escapes(c.content[1]) # c.content[1])
           /\ c.opened # <<>> =>
                /\ c.opened[1] = stem(file_path) \o DecodedMarker \o suffix(file_path)
                /\ c.opened[1] # file_path
                /\ c.fault = "none" =>
                     /\ c.opened[1] \in DOMAIN fs'
                     /\ fs'[c.opened[1]] = write_text(decode_unicode_escapes(c.content[1]))
           /\ Touched \subseteq { c.opened[k] : k \in 1..Len(c.opened) }
           /\ file_path \in DOMAIN fs'
           /\ fs'[file_path] = fs[file_path] ]_vars

\* a changed file has been written beside its input, which is as it was
C3_Witness ==
  /\ call.opened # <<>>
  /\ call.fault = "none"
  /\ call.opened[1] # call.file
  /\ fs[call.opened[1]] = decode_unicode_escapes(call.content[1])
  /\ fs[call.file] = call.content[1]
  /\ fs[call.file] # fs[call.opened[1]]

-----------------------------------------------------------------------------
(* C5 *)

HyphenMarker == <<"-", "d", "e", "c", "o", "d", "e", "d">>

\* files_to_process has been computed
SelectionMade == pc \in {"loop", "done"}

\* C5 as stated: main selects neither the script's own file nor a file whose
\* stem contains "-decoded".
C5_HyphenMarkerExcluded ==
  SelectionMade =>
    \A i \in 1..Len(files_to_process) :
      /\ files_to_process[i] # ScriptName
      /\ ~IsIn(HyphenMarker, stem(files_to_process[i]))

\* C5, amended: main selects neither the script's own file nor a file whose
\* stem contains "_decoded", the marker process_file puts in an output's name.
C5_UnderscoreMarkerExcluded ==
  SelectionMade =>
    \A i \in 1..Len(files_to_process) :
      /\ files_to_process[i] # ScriptName
      /\ ~IsIn(<<"_", "d", "e", "c", "o", "d", "e", "d">>, stem(files_to_process[i]))

\* the script and a text file with the marker are in the directory, and main
\* has just selected another file and neither of them
C5_Witness ==
  /\ pc = "loop"
  /\ idx = 0
  /\ ScriptName \in DOMAIN fs
  /\ \E n \in DOMAIN fs :
       /\ IsIn(DecodedMarker, stem(n))
       /\ is_text_file(n, fs[n])
       /\ \A i \in 1..Len(files_to_process) : files_to_process[i] # n
  /\ files_to_process # <<>>

-----------------------------------------------------------------------------
(* C9 *)

\* C9: a run of main ends; each iteration completes the next file of
\* files_to_process and adds one to exactly one counter, so the counters' sum
\* is the number of files completed, and at the end the number selected; no
\* file is selected twice; a file with a null byte and an extension outside
\* the allow-list is not selected; only a selected file gets an output.
C9_EveryFileOnce ==
  /\ [](processed_count + skipped_count + error_count = idx)
  /\ [](pc = "done" => idx = Len(files_to_process))
  /\ [](\A i, j \in 1..Len(files_to_process) :
          i # j => files_to_process[i] # files_to_process[j])
  /\ [](\A i \in 1..Len(files_to_process) :
          LET f == files_to_process[i]
          IN /\ f \in DOMAIN fs
             /\ ~( /\ lower(suffix(f)) \notin TEXT_EXTENSIONS
                   /\ \E k \in 1..Len(fs[f]) : fs[f][k] = 0 ))
  /\ [][ FileCompletes =>
           /\ call'.file = files_to_process[idx']
           /\ <<processed_count' - processed_count, skipped_count' - skipped_count,
                error_count' - error_count>> \in {<<1, 0, 0>>, <<0, 1, 0>>, <<0, 0, 1>>}
           /\ Touched \subseteq { new_file_path(files_to_process[idx']) } ]_vars
  /\ [][ ~FileCompletes => Touched = {} ]_vars
  /\ (pc = "start") ~> (pc = "done")

\* a run has ended with every selected file completed and counted, one of
\* them written, beside a file with a null byte that was not selected and has
\* no output
C9_Witness ==
  /\ pc = "done"
  /\ idx = Len(files_to_process)
  /\ idx >= 1
  /\ processed_count >= 1
  /\ processed_count + skipped_count + error_count = idx
  /\ \E n \in DOMAIN fs :
       /\ \E k \in 1..Len(fs[n]) : fs[n][k] = 0
       /\ \A i \in 1..Len(files_to_process) : files_to_process[i] # n
       /\ new_file_path(n) \notin DOMAIN fs

-----------------------------------------------------------------------------
(* C10 *)

\* C10: every file process_file writes has a stem that contains the marker
\* main excludes, so no file the pipeline wrote is ever selected, no name with
\* the marker twice appears, and a second run leaves the directory's names as
\* the first run left them.
C10_OutputsNeverSelected ==
  /\ \A n \in written : IsIn(DecodedMarker, stem(n))
  /\ \A i \in 1..Len(files_to_process) : files_to_process[i] \notin written
  /\ \A n \in DOMAIN fs : ~IsIn(DecodedMarker \o DecodedMarker, n)
  /\ (run = "later" /\ pc = "done") => DOMAIN fs = names_first

\* the state in which C10 fails: the later run has selected a file the first
\* run wrote, and has written a further file from it
C10_Witness ==
  /\ run = "later"
  /\ pc = "done"
  /\ \E i \in 1..Len(files_to_process) :
       /\ files_to_process[i] \in written
       /\ files_to_process[i] \in names_first
       /\ new_file_path(files_to_process[i]) \in DOMAIN fs \ names_first

====
